---- MODULE Spec2Model ----
(***************************************************************************)
(* State-machine model of the Hitachi VSP RestHandler                      *)
(* (src/delfin/drivers/hitachi/vsp/rest_handler.py): the session / token   *)
(* lifecycle (login, get_token, call, call_with_token, get_rest_info,      *)
(* logout) of one handler instance used by several caller threads.         *)
(*                                                                         *)
(* Secrets are pairs <<k, lvl>>: k names the secret (0 is the configured   *)
(* password, k >= 1 the k-th session the server minted) and lvl counts the *)
(* cryptor layers around it: 1 is the encrypted form, 0 the plaintext,     *)
(* -1 what decoding a plaintext yields.                                    *)
(***************************************************************************)
EXTENDS Integers, Sequences, FiniteSets, TLC

\* ------------------------------------------------------------------ bounds
NumThreads == 2
MaxTokens == 2
MaxSystems == 2

\* --------------------------------------------------------------- constants
None == <<>>
NoneId == "None"

COMM_URL == <<"ConfigurationManager", "v1", "objects", "storages">>
LOGOUT_URL == <<"ConfigurationManager", "v1", "objects", "sessions", "">>

ERROR_SESSION_INVALID_CODE == 403
ERROR_SESSION_IS_BEING_USED_CODE == 409

Threads == 1..NumThreads

\* Status codes Transport may answer with.
Statuses == {200, 404, 503, ERROR_SESSION_INVALID_CODE,
             ERROR_SESSION_IS_BEING_USED_CODE}

SessionErrors == {ERROR_SESSION_INVALID_CODE, ERROR_SESSION_IS_BEING_USED_CODE}

\* ----------------------------------------------------------------- cryptor
\* cryptor.encode: one more layer.
encode(v) == <<v[1], v[2] + 1>>

\* cryptor.decode: removes one layer of an encoded value.  Decoding a value
\* that is not encoded is outside the cryptor's contract: it either raises or
\* yields a value that is not the secret.
decode(v) ==
    IF v[2] >= 1 THEN {<<v[1], v[2] - 1>>}
    ELSE {<<v[1], -1>>, <<"DecodeError">>}

IsError(o) == Len(o) = 1

rest_password == <<0, 1>>

\* -------------------------------------------------------------------- URLs
SidText(k) == <<"sid1", "sid2", "sid3", "sid4", "sid5", "sid6">>[k]

\* f'{RestHandler.COMM_URL}/{self.storage_device_id}/<leaf>'
ResourceUrl(dev, leaf) == COMM_URL \o <<dev, leaf>>

\* f'{RestHandler.COMM_URL}/{self.storage_device_id}/sessions'
SessionsUrl(dev) == COMM_URL \o <<dev, "sessions">>

\* f'{COMM_URL}/{self.storage_device_id}/sessions/{cryptor.decode(session_id)}'
SessionDeleteUrl(dev, sid) == COMM_URL \o <<dev, "sessions", SidText(sid[1])>>

\* The substring test 'needle in url' on '/'-joined paths.  The needle ends
\* with '/', so its last (empty) segment matches the start of any segment.
ContainsAt(needle, url, i) ==
    /\ i + Len(needle) - 1 <= Len(url)
    /\ \A j \in 1..Len(needle) :
          \/ needle[j] = url[i + j - 1]
          \/ j = Len(needle) /\ needle[j] = ""

Contains(needle, url) == \E i \in 1..Len(url) : ContainsAt(needle, url, i)

\* ------------------------------------------------------------------- state
VARIABLES
    san_address,        \* RestClient.san_address (fixed at construction)
    session,            \* self.session: None or <<headers[AUTH_KEY], auth>>
    session_id,         \* self.session_id: None or an encoded session id
    storage_device_id,  \* self.storage_device_id
    device_model,       \* self.device_model
    serial_number,      \* self.serial_number
    session_lock,       \* self.session_lock: 0 (free) or the holding thread
    server,             \* the array's REST server: [policy, minted]
    vplex,              \* self.session of the VPLEX handler: None or its
                        \* "password" header
    thread              \* per caller thread: position, locals, outcome

vars == <<san_address, session, session_id, storage_device_id, device_model,
          serial_number, session_lock, server, vplex, thread>>

handler == <<session, session_id, storage_device_id, device_model,
             serial_number>>

\* self.session.headers.get(RestHandler.AUTH_KEY, None)
Header(s) == s[1]

\* RestClient.init_http_head: a fresh transport handle, no Authorization
\* header and no auth.
NewSession == <<None, None>>

WithHeader(s, h) == <<h, s[2]>>

WithAuth(s, a) == <<s[1], a>>

\* A thread that is not inside any handler method.
IdleThread ==
    [pc |-> "idle", op |-> "", stack |-> <<>>,
     url |-> <<>>, method |-> "", req |-> <<>>,
     auth_key |-> None, resp |-> 0, res |-> 0, tok |-> 0, succeed |-> FALSE,
     ret |-> "", exc |-> "",
     call |-> "", call_exc |-> "", first |-> 0, last |-> 0, nreq |-> 0,
     ntok |-> 0, npost |-> 0, wire |-> None, prev |-> "",
     systems |-> <<>>]

\* A thread that never uses the handler.
NoThread == [IdleThread EXCEPT !.pc = "absent"]

CallFrames == {"call_first", "call_token", "call_retry"}

\* The methods th is inside of: the one it executes and its callers.
Frames(th) == {th.pc} \cup {th.stack[i] : i \in 1..Len(th.stack)}

InCall(th) == Frames(th) \cap CallFrames # {}

\* return: continue at the caller's pending position.
\* The locals of the finished frames are gone once the method is left.
Left(th) ==
    IF th.pc # "done" THEN th
    ELSE [th EXCEPT !.url = <<>>, !.method = "", !.req = <<>>,
                    !.auth_key = None, !.resp = 0, !.tok = 0,
                    !.succeed = FALSE, !.wire = None]

Return(th) ==
    Left([th EXCEPT !.pc = Head(th.stack), !.stack = Tail(th.stack)])

\* Raise without the except clause of logout().
RaiseUnwrapped(th, e) ==
    Left([th EXCEPT !.pc = "done", !.stack = <<>>,
                    !.exc = e,
                    !.call = IF InCall(th) THEN "raised" ELSE @,
                    !.call_exc = IF InCall(th) THEN e ELSE @])

\* A raised exception unwinds every frame: call(), get_token(), login() and
\* get_device_id() log and re-raise it, get_rest_info() lets it pass, and
\* logout() replaces it by StorageBackendException.
Raise(th, e) ==
    Left([th EXCEPT !.pc = "done", !.stack = <<>>,
                    !.exc = IF "logout_clear" \in Frames(th)
                            THEN "StorageBackendException" ELSE e,
                    !.call = IF InCall(th) THEN "raised" ELSE @,
                    !.call_exc = IF InCall(th) THEN e ELSE @])

\* Leaving 'with self.session_lock' by an exception releases the lock.
Unlocked(t) == IF session_lock = t THEN 0 ELSE session_lock

\* call_with_token(url, data, method, calltimeout), to continue at k.
EnterCwt(th, url, method, k) ==
    [th EXCEPT !.pc = "cwt_read", !.stack = <<k>> \o @,
               !.req = <<url, method>>, !.auth_key = None]

\* call(url, data, method), to continue at k: lines 45-46.
EnterCall(th, url, method, k) ==
    EnterCwt([th EXCEPT !.url = url, !.method = method, !.stack = <<k>> \o @,
                        !.call = "active", !.call_exc = "", !.res = 0,
                        !.first = 0, !.last = 0,
                        !.nreq = 0, !.ntok = 0, !.npost = 0],
             url, method, "call_first")

\* call() returns res.
ReturnCall(th) == Return([th EXCEPT !.call = "returned"])

\* get_token(), to continue at k: lines 93-97.  Without a san_address it
\* logs and returns False.
EnterGetToken(th, k) ==
    IF san_address
    THEN [th EXCEPT !.pc = "gt_lock", !.stack = <<k>> \o @,
                    !.succeed = FALSE,
                    !.req = <<SessionsUrl(storage_device_id), "POST">>]
    ELSE [th EXCEPT !.pc = k, !.succeed = FALSE]

\* get_rest_info(url), to continue at k: lines 85-89.
EnterGetRestInfo(th, url, k) ==
    LET th1 == [th EXCEPT !.url = url, !.stack = <<k>> \o @]
    IN  IF session # None /\ url # COMM_URL /\ Header(session) = None
        THEN EnterGetToken(th1, "gri_call")
        ELSE EnterCall(th1, url, "GET", "gri_ret")

TypeOK ==
    /\ san_address \in BOOLEAN
    /\ session_lock \in {0} \cup Threads
    /\ server.minted \in 0..(MaxTokens + NumThreads)
    /\ session = None \/ Header(session) = None
          \/ (Header(session)[1] \in 1..server.minted
              /\ Header(session)[2] \in {-1, 0, 1})
    /\ session_id = None
          \/ (session_id[1] \in 1..server.minted /\ session_id[2] = 1)
    /\ \A t \in Threads : thread[t].pc \in
          {"idle", "done", "absent", "cwt_read", "cwt_decode", "do_call", "cwt_restore",
           "call_first", "call_token", "call_retry", "gt_lock", "gt_auth",
           "gt_post", "gt_header", "gri_call", "gri_ret", "gdi_loop",
           "logout_clear", "logout_device", "logout_session",
           "vl_head", "vl_call", "vl_check", "vg_call", "vo_close"}

\* -------------------------------------------------------------- Transport
\* The session-creation request of get_token().
IsSessionPost(req) == req[2] = "POST" /\ req[1][Len(req[1])] = "sessions"

\* The request names no device of the array: its URL was built while
\* storage_device_id was None.
UnknownDevice(req) ==
    Len(req[1]) > Len(COMM_URL) /\ req[1][Len(COMM_URL) + 1] = NoneId

\* A token the recovering server accepts: minted after the rejected one.
Accepted(h) == h # None /\ h[2] = 0 /\ h[1] > 1 /\ h[1] <= server.minted

\* The status codes the server may answer a request with, by its policy:
\*   "any"        anything (it mints at most MaxTokens sessions);
\*   "expiring"   a healthy array whose sessions expire: 200 or session
\*                invalid (it mints at most MaxTokens sessions);
\*   "teardown"   as "expiring", and it creates no session for a device id
\*                it does not know;
\*   "recovering" it creates a session on every session POST and answers 200
\*                exactly to the requests carrying a token it accepts.
Answers(req, h) ==
    LET full == server.minted >= MaxTokens /\ IsSessionPost(req)
    IN  CASE server.policy = "any" ->
                IF full THEN Statuses \ {200} ELSE Statuses
          [] server.policy = "expiring" ->
                IF full THEN {ERROR_SESSION_INVALID_CODE}
                ELSE {200, ERROR_SESSION_INVALID_CODE}
          [] server.policy = "teardown" ->
                IF full \/ (IsSessionPost(req) /\ UnknownDevice(req))
                THEN {ERROR_SESSION_INVALID_CODE}
                ELSE {200, ERROR_SESSION_INVALID_CODE}
          [] OTHER ->
                IF IsSessionPost(req) \/ Accepted(h)
                THEN {200} ELSE {ERROR_SESSION_INVALID_CODE}

\* call_with_token returns res to its caller (line 82).
CwtReturn(th) == Return([th EXCEPT !.auth_key = None, !.wire = None])

\* ---------------------------------------------------------------- actions
Run(t, th) == thread' = [thread EXCEPT ![t] = th]

\* call_with_token, lines 72-74: read the cached Authorization value.
CwtRead(t) ==
    LET th == thread[t]
        key == IF session # None THEN Header(session) ELSE None
    IN  /\ th.pc = "cwt_read"
        /\ Run(t, [th EXCEPT !.auth_key = key,
                             !.pc = IF key # None THEN "cwt_decode"
                                    ELSE "do_call"])
        /\ UNCHANGED <<san_address, vplex, handler, session_lock, server>>

\* call_with_token, lines 75-77: put the decoded value into the header.
CwtDecode(t) ==
    LET th == thread[t]
    IN  /\ th.pc = "cwt_decode"
        /\ \E d \in decode(th.auth_key) :
              IF IsError(d) \/ session = None
              THEN /\ Run(t, Raise(th, IF IsError(d) THEN "DecodeError"
                                       ELSE "AttributeError"))
                   /\ session_lock' = Unlocked(t)
                   /\ UNCHANGED session
              ELSE /\ session' = WithHeader(session, d)
                   /\ Run(t, [th EXCEPT !.pc = "do_call"])
                   /\ UNCHANGED session_lock
        /\ UNCHANGED <<san_address, vplex, session_id, storage_device_id,
                       device_model, serial_number, server>>

\* do_call answered by the server (lines 78-79): the request carries the
\* header as it is now.  A 200 to a session POST mints the next session.
DoCall(t) ==
    LET th == thread[t]
        h == Header(session)
    IN  /\ th.pc = "do_call"
        /\ session # None
        /\ \E status \in Answers(th.req, h) :
              LET mint == IsSessionPost(th.req) /\ status = 200
                  k == server.minted + 1
                  byCall == Head(th.stack) \in CallFrames
                  th1 == [th EXCEPT !.resp = status,
                                    !.tok = IF mint THEN k ELSE 0,
                                    !.wire = h,
                                    !.nreq = IF byCall THEN @ + 1 ELSE @,
                                    !.last = IF byCall THEN status ELSE @,
                                    !.npost = IF IsSessionPost(th.req)
                                              THEN @ + 1 ELSE @]
              IN  /\ server' = [server EXCEPT
                                   !.minted = IF mint THEN k ELSE @]
                  /\ Run(t, IF th.auth_key # None
                            THEN [th1 EXCEPT !.pc = "cwt_restore"]
                            ELSE CwtReturn(th1))
        /\ UNCHANGED <<san_address, vplex, handler, session_lock>>

\* do_call raises: the transport fails, or there is no transport handle.
DoCallRaises(t) ==
    LET th == thread[t]
        sent == session # None
        byCall == Head(th.stack) \in CallFrames
        th1 == [th EXCEPT !.nreq = IF sent /\ byCall THEN @ + 1 ELSE @,
                          !.npost = IF sent /\ IsSessionPost(th.req)
                                    THEN @ + 1 ELSE @]
    IN  /\ th.pc = "do_call"
        /\ server.policy # "recovering" \/ session = None
        /\ Run(t, Raise(th1, IF session = None THEN "AttributeError"
                             ELSE "TransportError"))
        /\ session_lock' = Unlocked(t)
        /\ UNCHANGED <<san_address, vplex, handler, server>>

\* call_with_token, lines 80-82: put the value read at entry back.
CwtRestore(t) ==
    LET th == thread[t]
    IN  /\ th.pc = "cwt_restore"
        /\ IF session = None
           THEN /\ Run(t, Raise(th, "AttributeError"))
                /\ session_lock' = Unlocked(t)
                /\ UNCHANGED session
           ELSE /\ session' = WithHeader(session, th.auth_key)
                /\ Run(t, CwtReturn(th))
                /\ UNCHANGED session_lock
        /\ UNCHANGED <<san_address, vplex, session_id, storage_device_id,
                       device_model, serial_number, server>>

\* CallFirst without the 503 branch of lines 61-62.
CallFirstReturns503(t) ==
    LET th == [thread[t] EXCEPT !.res = thread[t].resp,
                                !.first = thread[t].resp, !.resp = 0]
    IN  /\ th.pc = "call_first"
        /\ IF th.res \in SessionErrors
           THEN IF th.method = "DELETE" /\ Contains(LOGOUT_URL, th.url)
                THEN Run(t, ReturnCall(th))
                ELSE Run(t, EnterGetToken([th EXCEPT !.ntok = @ + 1],
                                          "call_token"))
           ELSE Run(t, ReturnCall(th))
        /\ UNCHANGED <<san_address, vplex, handler, session_lock, server>>

\* call, lines 47-64, with the response of the first request.
CallFirst(t) ==
    LET th == [thread[t] EXCEPT !.res = thread[t].resp,
                                !.first = thread[t].resp, !.resp = 0]
    IN  /\ th.pc = "call_first"
        /\ IF th.res \in SessionErrors
           THEN IF th.method = "DELETE" /\ Contains(LOGOUT_URL, th.url)
                THEN Run(t, ReturnCall(th))
                ELSE Run(t, EnterGetToken([th EXCEPT !.ntok = @ + 1],
                                          "call_token"))
           ELSE IF th.res = 503
                THEN Run(t, Raise(th, "InvalidResults"))
                ELSE Run(t, ReturnCall(th))
        /\ UNCHANGED <<san_address, vplex, handler, session_lock, server>>

\* call, lines 57-60 and 64: get_token() has returned.
CallToken(t) ==
    LET th == thread[t]
    IN  /\ th.pc = "call_token"
        /\ Run(t, IF th.succeed
                  THEN EnterCwt(th, th.url, th.method, "call_retry")
                  ELSE ReturnCall(th))
        /\ UNCHANGED <<san_address, vplex, handler, session_lock, server>>

\* CallRetry that re-authenticates again after a rejected retry.
CallRetryAgain(t) ==
    LET th == [thread[t] EXCEPT !.res = thread[t].resp, !.resp = 0]
    IN  /\ th.pc = "call_retry"
        /\ Run(t, IF th.res \in SessionErrors
                  THEN EnterGetToken([th EXCEPT !.ntok = @ + 1], "call_token")
                  ELSE ReturnCall(th))
        /\ UNCHANGED <<san_address, vplex, handler, session_lock, server>>

\* call, lines 58 and 64: the retry's response is returned.
CallRetry(t) ==
    LET th == [thread[t] EXCEPT !.res = thread[t].resp, !.resp = 0]
    IN  /\ th.pc = "call_retry"
        /\ Run(t, ReturnCall(th))
        /\ UNCHANGED <<san_address, vplex, handler, session_lock, server>>

\* GtLock that does not wait for the lock.
GtLockNoWait(t) ==
    LET th == thread[t]
    IN  /\ th.pc = "gt_lock"
        /\ session_lock' = t
        /\ Run(t, [th EXCEPT !.pc = "gt_auth"])
        /\ UNCHANGED <<san_address, vplex, handler, server>>

\* get_token, line 99: 'with self.session_lock' blocks until the lock is free.
GtLock(t) ==
    LET th == thread[t]
    IN  /\ th.pc = "gt_lock"
        /\ session_lock = 0
        /\ session_lock' = t
        /\ Run(t, [th EXCEPT !.pc = "gt_auth"])
        /\ UNCHANGED <<san_address, vplex, handler, server>>

\* get_token, lines 100-106: make sure there is a transport handle, give it
\* the basic-auth credentials and send the session-creation POST.
GtAuth(t) ==
    LET th == thread[t]
        s == IF session = None THEN NewSession ELSE session
        pw == CHOOSE d \in decode(rest_password) : TRUE
    IN  /\ th.pc = "gt_auth"
        /\ session' = WithAuth(s, pw)
        /\ Run(t, EnterCwt(th, th.req[1], "POST", "gt_post"))
        /\ UNCHANGED <<san_address, vplex, session_id, storage_device_id,
                       device_model, serial_number, session_lock, server>>

\* The exception get_token raises for a non-200 answer, by the markers in
\* the response text (lines 120-126).
LoginErrors ==
    {"InvalidUsernameOrPassword", "StorageBackendException", "BadResponse"}

\* get_token, lines 107-111 and 116-126: the POST has been answered.
GtPost(t) ==
    LET th == thread[t]
    IN  /\ th.pc = "gt_post"
        /\ IF th.resp = 200
           THEN /\ session_id' = encode(<<th.tok, 0>>)
                /\ Run(t, [th EXCEPT !.succeed = TRUE, !.pc = "gt_header"])
                /\ UNCHANGED session_lock
           ELSE /\ \E e \in LoginErrors : Run(t, Raise(th, e))
                /\ session_lock' = Unlocked(t)
                /\ UNCHANGED session_id
        /\ UNCHANGED <<san_address, vplex, session, storage_device_id, device_model,
                       serial_number, server>>

\* get_token, lines 112-115 and 130: cache the encoded token, leave the
\* lock, return succeed.
GtHeader(t) ==
    LET th == thread[t]
    IN  /\ th.pc = "gt_header"
        /\ IF session = None
           THEN /\ Run(t, Raise(th, "AttributeError"))
                /\ UNCHANGED session
           ELSE /\ session' = WithHeader(session, encode(<<th.tok, 0>>))
                /\ Run(t, Return(th))
        /\ session_lock' = 0
        /\ UNCHANGED <<san_address, vplex, session_id, storage_device_id,
                       device_model, serial_number, server>>

\* get_rest_info, line 89: the forced get_token() has returned.
GriCall(t) ==
    LET th == thread[t]
    IN  /\ th.pc = "gri_call"
        /\ Run(t, EnterCall(th, th.url, "GET", "gri_ret"))
        /\ UNCHANGED <<san_address, vplex, handler, session_lock, server>>

\* get_rest_info, line 90: the parsed body for a 200, None otherwise.
GriRet(t) ==
    LET th == thread[t]
    IN  /\ th.pc = "gri_ret"
        /\ Run(t, Return([th EXCEPT !.ret = IF th.res = 200 THEN "json"
                                            ELSE "None"]))
        /\ UNCHANGED <<san_address, vplex, handler, session_lock, server>>

\* --------------------------------------------------------------- discovery
rest_host == "10.0.0.1"
OtherHost == "10.0.0.2"

\* consts.SUPPORTED_VSP_SERIES, the model allow-list.
SUPPORTED_VSP_SERIES == {"VSP G350"}

Models == {"VSP G350", "VSP G1000"}

\* The i-th entry of a discovery response.
SystemsAt(i) ==
    [storageDeviceId : {<<"dev1", "dev2", "dev3", "dev4">>[i]},
     model : Models,
     serialNumber : {<<"sn1", "sn2", "sn3", "sn4">>[i]},
     ctl1Ip : {rest_host, OtherHost},
     ctl2Ip : {rest_host, OtherHost},
     svpIp : {rest_host, OtherHost}]

RECURSIVE DiscoveryLists(_)
DiscoveryLists(n) ==
    IF n = 0 THEN {<<>>}
    ELSE DiscoveryLists(n - 1) \cup
         {Append(l, s) : l \in {x \in DiscoveryLists(n - 1) : Len(x) = n - 1},
                         s \in SystemsAt(n)}

\* get_device_id, lines 174-185: whether the loop stops at this system.
Matches(system) ==
    IF system.model \in SUPPORTED_VSP_SERIES
    THEN system.ctl1Ip = rest_host \/ system.ctl2Ip = rest_host
    ELSE system.svpIp = rest_host

\* The loop of get_device_id breaking at the last matching system.
RECURSIVE LastMatch(_, _)
LastMatch(systems, i) ==
    IF i > Len(systems) THEN 0
    ELSE LET later == LastMatch(systems, i + 1)
         IN  IF later > 0 THEN later
             ELSE IF Matches(systems[i]) THEN i ELSE 0

\* get_device_id, lines 172-185: the index the loop breaks at, from i on;
\* 0 when it runs to the end of the list.
RECURSIVE FirstMatch(_, _)
FirstMatch(systems, i) ==
    IF i > Len(systems) THEN 0
    ELSE IF Matches(systems[i]) THEN i
    ELSE FirstMatch(systems, i + 1)

\* An array of policy "any" reports up to MaxSystems systems, the others one.
Discovered == IF server.policy = "any" THEN MaxSystems ELSE 1

\* get_device_id, lines 170-188, with what get_system_info() returned: a
\* None result or a body without 'data' raises; otherwise the first matching
\* system is recorded and succeed tells whether the list had any entry.
GdiLoop(t) ==
    LET th == thread[t]
    IN  /\ th.pc = "gdi_loop"
        /\ IF th.ret = "None"
           THEN /\ Run(t, Raise(th, "AttributeError"))
                /\ UNCHANGED <<storage_device_id, device_model, serial_number>>
           ELSE \E systems \in DiscoveryLists(Discovered) :
                \E has_data \in BOOLEAN :
                  IF ~has_data
                  THEN /\ systems = <<>>
                       /\ Run(t, Raise(th, "TypeError"))
                       /\ UNCHANGED <<storage_device_id, device_model,
                                      serial_number>>
                  ELSE LET i == FirstMatch(systems, 1)
                           succeed == Len(systems) > 0
                       IN  /\ IF i > 0
                              THEN /\ storage_device_id' =
                                          systems[i].storageDeviceId
                                   /\ device_model' = systems[i].model
                                   /\ serial_number' = systems[i].serialNumber
                              ELSE UNCHANGED <<storage_device_id,
                                               device_model, serial_number>>
                           /\ Run(t, Return([th EXCEPT
                                     !.systems = systems,
                                     !.succeed = succeed,
                                     !.ret = IF succeed THEN "True"
                                             ELSE "False"]))
        /\ UNCHANGED <<san_address, vplex, session, session_id, session_lock, server>>

\* LogoutClear that leaves session_id in place.
LogoutClearKeepsId(t) ==
    LET th == thread[t]
    IN  /\ th.pc = "logout_clear"
        /\ Run(t, [th EXCEPT !.pc = "logout_device"])
        /\ UNCHANGED <<san_address, vplex, handler, session_lock, server>>

\* logout, lines 152-153: the DELETE call has returned; clear the session id.
LogoutClear(t) ==
    LET th == thread[t]
    IN  /\ th.pc = "logout_clear"
        /\ session_id' = None
        /\ Run(t, [th EXCEPT !.pc = "logout_device"])
        /\ UNCHANGED <<san_address, vplex, session, storage_device_id, device_model,
                       serial_number, session_lock, server>>

\* logout, lines 154-156: clear the device identity.  device_model and
\* serial_number are read by no method of the handler.
LogoutClearDevice(t) ==
    LET th == thread[t]
    IN  /\ th.pc = "logout_device"
        /\ storage_device_id' = NoneId
        /\ device_model' = NoneId
        /\ serial_number' = NoneId
        /\ Run(t, [th EXCEPT !.pc = "logout_session"])
        /\ UNCHANGED <<san_address, vplex, session, session_id, session_lock, server>>

\* logout, line 157: drop the transport handle and return.
LogoutClearSession(t) ==
    LET th == thread[t]
    IN  /\ th.pc = "logout_session"
        /\ session' = None
        /\ Run(t, Return([th EXCEPT !.ret = "None"]))
        /\ UNCHANGED <<san_address, vplex, session_id, storage_device_id,
                       device_model, serial_number, session_lock, server>>

\* --------------------------------------------------- the handler's callers
\* A thread may start a method when it is in none.  In the "recovering" and
\* "teardown" scenarios each thread invokes a single method.
Ready(t) ==
    \/ thread[t].pc = "idle"
    \/ thread[t].pc = "done" /\ server.policy \in {"any", "expiring"}

\* The thread's record at the start of method op of thread t; prev tells
\* whether the method it ran before was a logout() that returned normally,
\* and whether that one sent its DELETE.
Start(t, op) ==
    LET was == thread[t]
    IN  [IdleThread EXCEPT
            !.op = op,
            !.prev = IF was.pc = "done" /\ was.op = "logout" /\ was.exc = ""
                     THEN IF was.call = "returned" THEN "logout_delete"
                          ELSE "logout"
                     ELSE ""]

\* A DELETE below LOGOUT_URL, as a caller of call() may issue it.
SessionsDeleteUrl == <<"ConfigurationManager", "v1", "objects", "sessions",
                       "sid1">>

\* The resource getters (get_all_pools, ...) build their URL from
\* storage_device_id.
PoolsUrl == ResourceUrl(storage_device_id, "pools")

\* call(url, method=...) invoked by a caller.
Call(t) ==
    /\ Ready(t)
    /\ \E c \in {<<COMM_URL, "GET">>, <<PoolsUrl, "GET">>,
                 <<SessionsDeleteUrl, "DELETE">>} :
          /\ server.policy # "recovering" \/ c[1] = PoolsUrl
          /\ Run(t, EnterCall(Start(t, "call"), c[1], c[2], "done"))
    /\ UNCHANGED <<san_address, vplex, handler, session_lock, server>>

\* get_all_pools() and the other getters: get_rest_info(url).
GetRestInfo(t) ==
    /\ Ready(t)
    /\ server.policy # "recovering"
    /\ Run(t, EnterGetRestInfo(Start(t, "get_rest_info"), PoolsUrl, "done"))
    /\ UNCHANGED <<san_address, vplex, handler, session_lock, server>>

\* get_token() invoked by a caller.
GetToken(t) ==
    /\ Ready(t)
    /\ server.policy # "recovering"
    /\ Run(t, EnterGetToken(Start(t, "get_token"), "done"))
    /\ UNCHANGED <<san_address, vplex, handler, session_lock, server>>

\* login(): get_device_id, lines 166-170, up to the discovery request.
Login(t) ==
    /\ Ready(t)
    /\ server.policy # "recovering"
    /\ session' = IF session = None THEN NewSession ELSE session
    /\ Run(t, EnterGetRestInfo([Start(t, "login") EXCEPT !.stack = <<"done">>],
                               COMM_URL, "gdi_loop"))
    /\ UNCHANGED <<san_address, vplex, session_id, storage_device_id, device_model,
                   serial_number, session_lock, server>>

\* logout(), lines 145-152 and 158-159: without a session id it logs and
\* returns; with one it sends the DELETE through call().
Logout(t) ==
    /\ Ready(t)
    /\ server.policy # "recovering"
    /\ IF session_id # None /\ san_address
       THEN LET sid == CHOOSE d \in decode(session_id) : TRUE
                url == SessionDeleteUrl(storage_device_id, sid)
            IN  Run(t, EnterCall([Start(t, "logout") EXCEPT !.stack = <<"done">>],
                                 url, "DELETE", "logout_clear"))
       ELSE Run(t, [Start(t, "logout") EXCEPT !.pc = "done", !.ret = "None"])
    /\ UNCHANGED <<san_address, vplex, handler, session_lock, server>>

\* ------------------------------------------------------- the VPLEX handler
\* The header-credential handler (dell_emc/vplex/rest_handler.py): login(),
\* get_rest_info() and logout() of one instance.

\* login(), line 32.
VplexLogin(t) ==
    /\ Ready(t)
    /\ Run(t, [Start(t, "vplex_login") EXCEPT !.pc = "vl_head"])
    /\ UNCHANGED <<san_address, vplex, handler, session_lock, server>>

\* login, lines 33-36: a fresh transport handle whose headers get the
\* username and the decoded password.
VplexLoginHead(t) ==
    LET th == thread[t]
    IN  /\ th.pc = "vl_head"
        /\ \E d \in decode(rest_password) : vplex' = d
        /\ Run(t, [th EXCEPT !.pc = "vl_call"])
        /\ UNCHANGED <<san_address, handler, session_lock, server>>

\* login, line 37: the authentication probe is answered, or do_call raises.
VplexLoginCall(t) ==
    LET th == thread[t]
    IN  /\ th.pc = "vl_call"
        /\ \/ \E status \in Statuses :
                 Run(t, [th EXCEPT !.resp = status, !.pc = "vl_check"])
           \/ Run(t, Raise(th, "TransportError"))
        /\ UNCHANGED <<san_address, vplex, handler, session_lock, server>>

\* login, lines 38-49: a status other than 200 raises, by the marker in the
\* response text.
VplexLoginCheck(t) ==
    LET th == thread[t]
    IN  /\ th.pc = "vl_check"
        /\ IF th.resp # 200
           THEN \E e \in {"InvalidUsernameOrPassword",
                           "StorageBackendException"} : Run(t, Raise(th, e))
           ELSE Run(t, [th EXCEPT !.pc = "done", !.res = th.resp,
                                  !.resp = 0, !.ret = "None"])
        /\ UNCHANGED <<san_address, vplex, handler, session_lock, server>>

\* get_rest_info(url), line 53, up to the request.
VplexGetRestInfo(t) ==
    /\ Ready(t)
    /\ Run(t, [Start(t, "vplex_get_rest_info") EXCEPT !.pc = "vg_call"])
    /\ UNCHANGED <<san_address, vplex, handler, session_lock, server>>

\* get_rest_info, lines 53-54: do_call raises (no transport handle, or the
\* transport fails) or is answered; the body for a 200, None otherwise.
VplexGetCall(t) ==
    LET th == thread[t]
    IN  /\ th.pc = "vg_call"
        /\ \/ Run(t, Raise(th, IF vplex = None THEN "AttributeError"
                                ELSE "TransportError"))
           \/ /\ vplex # None
              /\ \E status \in Statuses :
                    Run(t, [th EXCEPT !.pc = "done", !.res = status,
                                      !.ret = IF status = 200 THEN "json"
                                              ELSE "None"])
        /\ UNCHANGED <<san_address, vplex, handler, session_lock, server>>

\* logout(), lines 106-108: close the transport handle if there is one; the
\* handle and its headers stay.
VplexLogout(t) ==
    /\ Ready(t)
    /\ Run(t, [Start(t, "vplex_logout") EXCEPT !.pc = "done", !.ret = "None"])
    /\ UNCHANGED <<san_address, vplex, handler, session_lock, server>>

StepVplex(t) ==
    \/ VplexLogin(t) \/ VplexLoginHead(t) \/ VplexLoginCall(t)
    \/ VplexLoginCheck(t)
    \/ VplexGetRestInfo(t) \/ VplexGetCall(t) \/ VplexLogout(t)

NextVplex == \E t \in Threads : StepVplex(t)

\* ----------------------------------------------------------- specification
\* The handler as __init__ leaves it.
Constructed ==
    /\ session = None
    /\ session_id = None
    /\ storage_device_id = NoneId
    /\ device_model = NoneId
    /\ serial_number = NoneId
    /\ session_lock = 0

Step(t) ==
    \/ Call(t) \/ GetRestInfo(t) \/ GetToken(t) \/ Login(t) \/ Logout(t)
    \/ CwtRead(t) \/ CwtDecode(t) \/ DoCall(t) \/ DoCallRaises(t)
    \/ CwtRestore(t)
    \/ CallFirst(t) \/ CallToken(t) \/ CallRetry(t)
    \/ GtLock(t) \/ GtAuth(t) \/ GtPost(t) \/ GtHeader(t)
    \/ GriCall(t) \/ GriRet(t) \/ GdiLoop(t)
    \/ LogoutClear(t) \/ LogoutClearDevice(t) \/ LogoutClearSession(t)

Next == \E t \in Threads : Step(t)

\* One caller thread, a server that may answer anything.
Init ==
    /\ san_address \in BOOLEAN
    /\ Constructed
    /\ server = [policy |-> "any", minted |-> 0]
    /\ vplex = None
    /\ thread = [t \in Threads |-> IF t = 1 THEN IdleThread ELSE NoThread]

Spec == Init /\ [][Next]_vars

\* What login() leaves when discovery matched the first system (lines 169,
\* 177-179): a transport handle without token, the device resolved.
LoggedIn ==
    /\ session = NewSession
    /\ session_id = None
    /\ storage_device_id = "dev1"
    /\ device_model = "VSP G350"
    /\ serial_number = "sn1"
    /\ session_lock = 0

StepThreads(t) ==
    \/ Call(t) \/ GetRestInfo(t) \/ GetToken(t)
    \/ CwtRead(t) \/ CwtDecode(t) \/ DoCall(t) \/ DoCallRaises(t)
    \/ CwtRestore(t)
    \/ CallFirst(t) \/ CallToken(t) \/ CallRetry(t)
    \/ GtLock(t) \/ GtAuth(t) \/ GtPost(t) \/ GtHeader(t)
    \/ GriCall(t) \/ GriRet(t)

NextThreads == \E t \in Threads : StepThreads(t)

\* NumThreads caller threads sharing a logged-in handler, an array whose
\* sessions expire.
InitThreads ==
    /\ san_address = TRUE
    /\ LoggedIn
    /\ server = [policy |-> "expiring", minted |-> 0]
    /\ vplex = None
    /\ thread = [t \in Threads |-> IdleThread]

SpecThreads == InitThreads /\ [][NextThreads]_vars

StepRecover(t) ==
    \/ Call(t)
    \/ CwtRead(t) \/ CwtDecode(t) \/ DoCall(t) \/ CwtRestore(t)
    \/ CallFirst(t) \/ CallToken(t) \/ CallRetry(t)
    \/ GtLock(t) \/ GtAuth(t) \/ GtPost(t) \/ GtHeader(t)

NextRecover == \E t \in Threads : StepRecover(t)

\* NumThreads caller threads, each making one call() on an authenticated
\* handler whose cached token (the first one minted) the server rejects; the
\* server creates a session on every POST and accepts every later token.
InitRecover ==
    /\ san_address = TRUE
    /\ session = <<encode(<<1, 0>>), CHOOSE d \in decode(rest_password) : TRUE>>
    /\ session_id = encode(<<1, 0>>)
    /\ storage_device_id = "dev1"
    /\ device_model = "VSP G350"
    /\ serial_number = "sn1"
    /\ session_lock = 0
    /\ server = [policy |-> "recovering", minted |-> 1]
    /\ vplex = None
    /\ thread = [t \in Threads |-> IdleThread]

SpecRecover == InitRecover /\ [][NextRecover]_vars

\* What a successful get_token() leaves on a logged-in handler (lines 102-115):
\* the first minted session, its id and token cached in encoded form.
Authenticated ==
    /\ session = <<encode(<<1, 0>>), CHOOSE d \in decode(rest_password) : TRUE>>
    /\ session_id = encode(<<1, 0>>)
    /\ storage_device_id = "dev1"
    /\ device_model = "VSP G350"
    /\ serial_number = "sn1"
    /\ session_lock = 0

\* NumThreads caller threads, each invoking one method (logout() among them)
\* on a handler that is authenticated, or logged in without a token yet.
InitTeardown ==
    /\ san_address = TRUE
    /\ \/ Authenticated /\ server = [policy |-> "teardown", minted |-> 1]
       \/ LoggedIn /\ server = [policy |-> "teardown", minted |-> 0]
    /\ vplex = None
    /\ thread = [t \in Threads |-> IdleThread]

SpecTeardown == InitTeardown /\ [][Next]_vars

\* NumThreads caller threads of one VPLEX handler, a server that may answer
\* anything.
InitVplex ==
    /\ san_address = TRUE
    /\ Constructed
    /\ server = [policy |-> "any", minted |-> 0]
    /\ vplex = None
    /\ thread = [t \in Threads |-> IdleThread]

SpecVplex == InitVplex /\ [][NextVplex]_vars

\* ------------------------------------------------------------------ claims
\* Exceptions that are not an answer of the server: the transport failing,
\* no transport handle, a header value that cannot be decoded.
TransportLevel == {"TransportError", "AttributeError", "DecodeError"}

Encrypted(h) == h[2] = 1

Quiescent == \A t \in Threads : thread[t].pc \in {"idle", "done", "absent"}

\* C1 (logout-no-retry): when the DELETE that logout() sends through call()
\* is answered with a session-invalid or session-in-use status, call() does
\* not invoke get_token(), sends no session-creation POST, sends the DELETE
\* once, and returns that response.
LogoutNoRetry ==
    \A t \in Threads :
        LET th == thread[t]
        IN  (th.op = "logout" /\ th.first \in SessionErrors) =>
                /\ th.ntok = 0
                /\ th.npost = 0
                /\ th.nreq = 1
                /\ th.call = "returned"
                /\ th.res = th.first

\* C2 (credential confidentiality of the header): whenever no thread is
\* inside a handler method, the Authorization slot is absent or holds an
\* encrypted token.
HeaderEncryptedAtRest ==
    Quiescent =>
        \/ session = None
        \/ Header(session) = None
        \/ Encrypted(Header(session))

\* C3 (retry ceiling): one call() sends at most two requests for its URL,
\* invokes get_token() at most once and sends at most one session-creation
\* POST; when it returns after two requests it returns the second response.
RetryCeiling ==
    \A t \in Threads :
        LET th == thread[t]
        IN  /\ th.nreq <= 2
            /\ th.ntok <= 1
            /\ th.npost <= 1
            /\ (th.call = "returned" /\ th.nreq = 2) =>
                    (th.res = th.last /\ th.ntok = 1)

\* C3 witness: a call() returned a session error after its one retry.
RetryCeilingWitness ==
    \E t \in Threads :
        LET th == thread[t]
        IN  /\ th.call = "returned"
            /\ th.first \in SessionErrors
            /\ th.res \in SessionErrors
            /\ th.nreq = 2
            /\ th.ntok = 1
            /\ th.npost = 1

\* C4: when call() (not a logout call) got a session error and the
\* re-authentication failed on an answer of the server, call() returns the
\* original failing response and does not raise.
ReauthFailureReturnsOriginal ==
    \A t \in Threads :
        LET th == thread[t]
        IN  (/\ th.call \in {"returned", "raised"}
             /\ th.first \in SessionErrors
             /\ th.ntok = 1
             /\ th.nreq = 1
             /\ th.call_exc \notin TransportLevel) =>
                (th.call = "returned" /\ th.res = th.first)

\* C5 as stated (503 fast-fail on either attempt): a call() whose latest
\* response is a 503 raises InvalidResults and never returns it.
FastFail503 ==
    \A t \in Threads :
        LET th == thread[t]
        IN  (th.call \in {"returned", "raised"} /\ th.last = 503
             /\ th.call_exc \notin TransportLevel) =>
                (th.call = "raised" /\ th.call_exc = "InvalidResults")

\* C5 amended (503 fast-fail on the first attempt): when the first response
\* call() receives is a 503 it raises InvalidResults without a further
\* request or a re-authentication; InvalidResults is raised for nothing else,
\* and a 503 the retry returns is returned to the caller as the result.
FastFail503First ==
    \A t \in Threads :
        LET th == thread[t]
        IN  /\ th.first = 503 =>
                /\ th.call = "raised"
                /\ th.call_exc = "InvalidResults"
                /\ th.nreq = 1
                /\ th.ntok = 0
            /\ th.call_exc = "InvalidResults" => th.first = 503
            /\ (/\ th.call \in {"returned", "raised"}
                /\ th.nreq = 2
                /\ th.last = 503
                /\ th.call_exc \notin TransportLevel) =>
                    (th.call = "returned" /\ th.res = 503)

\* C5 witness: a call() raised InvalidResults for its first response.
FastFail503Witness ==
    \E t \in Threads :
        /\ thread[t].first = 503
        /\ thread[t].call_exc = "InvalidResults"
        /\ thread[t].pc = "done"

\* C6 (idempotent logout): a logout() that follows a logout() which returned
\* normally sends no request and returns normally.
IdempotentLogout ==
    \A t \in Threads :
        LET th == thread[t]
        IN  (th.op = "logout" /\ th.prev \in {"logout", "logout_delete"}) =>
                /\ th.pc = "done"
                /\ th.exc = ""
                /\ th.call = ""
                /\ th.nreq = 0

\* C6 witness: the second logout() after one that sent its DELETE.
IdempotentLogoutWitness ==
    \E t \in Threads :
        /\ thread[t].op = "logout"
        /\ thread[t].prev = "logout_delete"
        /\ thread[t].pc = "done"

\* Between taking the lock for the session POST and having stored the
\* session id and the Authorization header.
InRefresh(t) ==
    \/ thread[t].pc \in {"gt_auth", "gt_post", "gt_header"}
    \/ /\ thread[t].stack # <<>>
       /\ Head(thread[t].stack) = "gt_post"

\* C7 (mutual exclusion of the refresh): at most one thread at a time is
\* between sending the session-creation POST and storing its result, and
\* that thread holds session_lock.
RefreshMutex ==
    \A t1, t2 \in Threads :
        /\ (InRefresh(t1) /\ InRefresh(t2)) => t1 = t2
        /\ InRefresh(t1) => session_lock = t1

\* C7 witness: one thread, re-authenticating from call()'s retry, is about to
\* store the new token while another, coming from get_rest_info(), waits for
\* the lock.
RefreshMutexWitness ==
    \E t1, t2 \in Threads :
        /\ thread[t1].pc = "gt_header"
        /\ Head(thread[t1].stack) = "call_token"
        /\ thread[t2].pc = "gt_lock"
        /\ Head(thread[t2].stack) = "gri_call"

\* C8 (concurrent callers recover): against the recovering server every
\* thread's call() returns a 200 response.
ConcurrentCallersRecover ==
    \A t \in Threads :
        thread[t].pc = "done" =>
            (thread[t].call = "returned" /\ thread[t].res = 200)

\* C9 (absent-on-non-200): get_rest_info() returns the parsed body exactly
\* for a final 200, None for the other statuses, and raises only for a
\* transport-level failure or a 503.
AbsentOnNon200 ==
    \A t \in Threads :
        LET th == thread[t]
        IN  (th.op = "get_rest_info" /\ th.pc = "done") =>
                /\ th.exc \in {"", "InvalidResults"} \cup TransportLevel
                /\ th.exc = "" =>
                      th.ret = IF th.res = 200 THEN "json" ELSE "None"

\* C10 (login with no matching system): a login() that returned with
\* storage_device_id still unresolved returned False.
LoginNoMatchReturnsFalse ==
    \A t \in Threads :
        LET th == thread[t]
        IN  (/\ th.op = "login" /\ th.pc = "done" /\ th.exc = ""
             /\ storage_device_id = NoneId) => th.ret = "False"

\* A login() that returned normally, with its discovery list in th.systems.
LoginReturned(th) == th.op = "login" /\ th.pc = "done" /\ th.exc = ""

\* The system whose identity the handler holds.
Resolved(system) ==
    /\ storage_device_id = system.storageDeviceId
    /\ device_model = system.model
    /\ serial_number = system.serialNumber

\* The least index of a non-empty set of indices.
Least(S) == CHOOSE i \in S : \A j \in S : i <= j

\* One of the three addresses of the system is the configured rest_host.
AnyAddress(system) ==
    \/ system.ctl1Ip = rest_host
    \/ system.ctl2Ip = rest_host
    \/ system.svpIp = rest_host

\* C11 as stated (first match wins, any address): after login() the handler
\* holds the identity of the first listed system one of whose ctl1Ip, ctl2Ip
\* and svpIp equals rest_host.
FirstAddressMatchWins ==
    \A t \in Threads :
        LET th == thread[t]
            S == {i \in 1..Len(th.systems) : AnyAddress(th.systems[i])}
        IN  (LoginReturned(th) /\ S # {}) => Resolved(th.systems[Least(S)])

\* C11 amended (first match wins, address chosen by model): after login() the
\* handler holds the identity of the first listed system that matches, where
\* a system of a supported model matches by ctl1Ip or ctl2Ip and any other
\* system by svpIp; the systems before it and after it are ignored.
FirstMatchWins ==
    \A t \in Threads :
        LET th == thread[t]
            S == {i \in 1..Len(th.systems) :
                    IF th.systems[i].model \in SUPPORTED_VSP_SERIES
                    THEN rest_host \in {th.systems[i].ctl1Ip,
                                        th.systems[i].ctl2Ip}
                    ELSE rest_host = th.systems[i].svpIp}
        IN  (LoginReturned(th) /\ S # {}) => Resolved(th.systems[Least(S)])

\* C11 witness: login() resolved the first of two matching systems.
FirstMatchWinsWitness ==
    \E t \in Threads :
        LET th == thread[t]
        IN  /\ LoginReturned(th)
            /\ Len(th.systems) = 2
            /\ Matches(th.systems[1])
            /\ Matches(th.systems[2])
            /\ Resolved(th.systems[1])

LogoutInProgress ==
    \E t \in Threads : thread[t].op = "logout" /\ thread[t].pc # "done"

\* C12 (no partial clear): while no logout() is in progress, a session id
\* comes with a transport handle and a device id; and once a logout() has
\* returned normally, with no login() invoked, the session id, the device
\* identity and the transport handle are all None.
NoPartialClear ==
    ~LogoutInProgress =>
        /\ session_id # None =>
              (session # None /\ storage_device_id # NoneId)
        /\ (/\ \E t \in Threads :
                  /\ thread[t].op = "logout"
                  /\ thread[t].exc = ""
                  /\ thread[t].call = "returned"
             /\ \A u \in Threads : thread[u].op # "login") =>
                /\ session_id = None
                /\ storage_device_id = NoneId
                /\ device_model = NoneId
                /\ serial_number = NoneId
                /\ session = None

\* C13 (logout failures are surfaced): a logout() whose DELETE call ended in
\* an exception raises StorageBackendException; logout() raises nothing else,
\* and it returns normally only when it found no session id (and sent
\* nothing) or its DELETE call returned a response.
LogoutFailuresSurfaced ==
    \A t \in Threads :
        LET th == thread[t]
        IN  (th.op = "logout" /\ th.pc = "done") =>
                /\ th.call = "raised" => th.exc = "StorageBackendException"
                /\ th.exc \in {"", "StorageBackendException"}
                /\ th.exc = "" =>
                      \/ th.call = "returned" /\ th.nreq >= 1
                      \/ th.call = "" /\ th.nreq = 0 /\ session_id = None

\* C13 witness: the re-authentication inside logout()'s DELETE call raised
\* and logout() raised StorageBackendException.
LogoutFailuresSurfacedWitness ==
    \E t \in Threads :
        LET th == thread[t]
        IN  /\ th.op = "logout"
            /\ th.pc = "done"
            /\ th.call_exc \in LoginErrors
            /\ th.exc = "StorageBackendException"

\* The configured password in the clear.
PlainPassword == <<0, 0>>

\* A thread has prepared a request that has not been answered yet.
RequestInFlight ==
    \E t \in Threads : thread[t].pc \in {"do_call", "vl_call", "vg_call"}

\* C14 (password never resident in clear): while no request is in flight,
\* neither the auth field of the Hitachi session nor the headers of the VPLEX
\* session hold the decrypted password.
PasswordNotResident ==
    ~RequestInFlight =>
        /\ session = None \/ session[2] # PlainPassword
        /\ vplex # PlainPassword

\* C15 (fresh token is not lost): no step replaces the token in the
\* Authorization slot by one minted earlier; the tokens are numbered in the
\* order the server minted them.
FreshTokenKept ==
    [][(/\ session # None /\ Header(session) # None
        /\ session' # None /\ Header(session') # None) =>
            Header(session')[1] >= Header(session)[1]]_vars

\* The Authorization slot of transport handle s, None without a handle.
SlotOf(s) == IF s = None THEN None ELSE Header(s)

\* C16 (lock discipline): every step that changes the Authorization slot or
\* session_id is taken by a thread that holds session_lock.
LockDiscipline ==
    [][(SlotOf(session') # SlotOf(session) \/ session_id' # session_id) =>
          \E t \in Threads : thread'[t] # thread[t] /\ session_lock = t]_vars

\* C17 (bootstrap call carries no token): a thread about to send a request
\* of call() to COMM_URL has decoded no cached value into the header.
BootstrapCarriesNoToken ==
    \A t \in Threads :
        LET th == thread[t]
        IN  (/\ th.pc = "do_call"
             /\ th.req[1] = COMM_URL
             /\ Head(th.stack) \in CallFrames) => th.auth_key = None

\* C18 (state-machine order): a thread inside login(), get_rest_info() or
\* logout() that is about to send the session-creation POST of get_token(),
\* or has its answer, finds the device identity resolved.
TokenOnlyWhenResolved ==
    \A t \in Threads :
        LET th == thread[t]
        IN  (/\ th.op \in {"login", "get_rest_info", "logout"}
             /\ th.pc \in {"do_call", "gt_post", "gt_header"}
             /\ IsSessionPost(th.req)) => storage_device_id # NoneId

\* C19 (header restored on failure): when a call() invoked by a caller has
\* ended in the exception the transport raised, that exception is the one
\* the caller gets and the Authorization slot, if there is one, holds an
\* encrypted token.
HeaderRestoredOnFailure ==
    \A t \in Threads :
        LET th == thread[t]
        IN  (/\ th.op = "call"
             /\ th.pc = "done"
             /\ th.call_exc = "TransportError") =>
                /\ th.exc = "TransportError"
                /\ SlotOf(session) = None \/ Encrypted(SlotOf(session))

\* C20 (header on the wire): whenever a thread is about to send a request
\* and the Authorization slot holds a value, that value is the plaintext of
\* a token the server minted: not an encrypted token, not a value decoded
\* twice.
WireCarriesPlainToken ==
    \A t \in Threads :
        (thread[t].pc = "do_call" /\ SlotOf(session) # None) =>
            /\ SlotOf(session)[2] = 0
            /\ SlotOf(session)[1] \in 1..server.minted

====
